---- MODULE Spec2Model ----
(***************************************************************************)
(* unitmgr: a daemon that mirrors a directory of systemd unit files into   *)
(* systemd's unit directory and starts, restarts and stops the units.      *)
(*                                                                         *)
(* The model has two parts, as main.go has:                                *)
(*   - sync (main.go:84-183), one reconciliation pass, run step by step:   *)
(*     the directory listing, two steps per listed entry (the checksums,   *)
(*     then the copy and the systemd call), one step per key of the state  *)
(*     map, the return;                                                    *)
(*   - runLoop (main.go:59-82) with the closure main passes to it          *)
(*     (main.go:48-53), which calls sync and picks the next timer delay.   *)
(* The file system, systemd and the fsnotify watcher are the environment:  *)
(* files are written and deleted, and units exit, between any two steps.   *)
(***************************************************************************)
EXTENDS Naturals, Sequences, FiniteSets, TLC

\* ------------------------------------------------------------------ bounds

\* At most this many entries in the source directory at a time.
MaxFiles == 2

\* At most this many notifications queued in watcher.Events at a time.
MaxQueue == 2

\* ------------------------------------------------------------- file names

\* A file name is the sequence of its characters.
UnitA == <<"a">>
UnitB == <<"b">>
SwapA == <<"a", ".", "s", "w", "p">>
BackupB == <<"b", "~">>

Names == {UnitA, UnitB, SwapA, BackupB}

\* The name the scheduler's own specification writes (TestRunLoop writes one file).
LoopNames == {UnitA}

\* strings.HasSuffix
HasSuffix(s, suffix) ==
    /\ Len(s) >= Len(suffix)
    /\ SubSeq(s, Len(s) - Len(suffix) + 1, Len(s)) = suffix

\* Mutant of SkipName: only swap files are skipped.
SkipSwapOnly(name) == HasSuffix(name, <<".", "s", "w", "p">>)

\* main.go:93, the two vim suffixes sync skips
SkipName(name) ==
    HasSuffix(name, <<".", "s", "w", "p">>) \/ HasSuffix(name, <<"~">>)

\* The byte of a character of a name (ASCII), for the order of a listing.
Byte(ch) ==
    CASE ch = "." -> 46
      [] ch = "a" -> 97
      [] ch = "b" -> 98
      [] ch = "p" -> 112
      [] ch = "s" -> 115
      [] ch = "w" -> 119
      [] ch = "~" -> 126

\* s < t as Go compares strings: byte by byte, a proper prefix first.
RECURSIVE NameLess(_, _)
NameLess(s, t) ==
    IF t = <<>> THEN FALSE
    ELSE IF s = <<>> THEN TRUE
    ELSE IF Byte(Head(s)) # Byte(Head(t)) THEN Byte(Head(s)) < Byte(Head(t))
    ELSE NameLess(Tail(s), Tail(t))

\* ioutil.ReadDir returns the entries sorted by file name.
RECURSIVE ReadDir(_)
ReadDir(S) ==
    IF S = {} THEN <<>>
    ELSE LET first == CHOOSE n \in S : \A m \in S \ {n} : NameLess(n, m)
         IN  <<first>> \o ReadDir(S \ {first})

\* ---------------------------------------------------------- file contents

\* The contents a user writes to a unit file (those of TestSync).
Contents == {"test1", "test2"}

\* ----------------------------------------------------------------- delays

\* main.go:60, time.NewTimer(1): one nanosecond
First == "1ns"

\* main.go:25, the default of -resync
Resync == "1h0m0s"

\* main.go:26, the default of -retry
Retry == "1s"

\* What io.Copy leaves in a destination file os.Create truncated when it fails.
Truncated == ""

\* getChecksum's digest: hex(sha256(content)).
Sha256Hex(content) ==
    CASE content = "test1" ->
           "1b4f0e9851971998e732078544c96b36c3d01cedf7caa332359d6f1d83567014"
      [] content = "test2" ->
           "60303ae22b998861bce3b28f33eec1be758a213c86c93c076dbe9f558c11c752"
      [] content = "" ->
           "e3b0c44298fc1c149afbf4c8996fb92427ae41e4649b934ca495991b7852b855"

\* A directory, or Go's map[string]string, is a function on the names it holds.
Put(dir, name, value) ==
    [n \in DOMAIN dir \cup {name} |-> IF n = name THEN value ELSE dir[n]]

Drop(dir, name) == [n \in DOMAIN dir \ {name} |-> dir[n]]

\* state[unit] of a Go map: the zero value "" for a missing key.
Lookup(m, unit) == IF unit \in DOMAIN m THEN m[unit] ELSE ""

\* What the user's editor leaves in a file of that name: any content in a unit
\* file; in a swap or backup file, for what sync does with it, one content.
Written(name) == IF SkipName(name) THEN {"test1"} ELSE Contents

\* The directories of at most max files with these names.
Dirs(names, max) ==
    UNION {{d \in [S -> Contents] : \A n \in S : d[n] \in Written(n)} :
             S \in {T \in SUBSET names : Cardinality(T) <= max}}

VARIABLES
    src,        \* the source directory: name -> content
    dest,       \* the destination directory: name -> content
    state,      \* sync's state map: unit -> checksum
    active,     \* the units systemd reports active
    pc,         \* where the program is: "wait" (no pass runs), "scan", "copy",
                \* "cleanup", "return" (in sync), "stopped" (runLoop returned)
    files,      \* sync: the listed entries not yet processed
    pending,    \* sync: the keys of state the cleanup loop has not yet visited
    ok,         \* sync: its ok flag
    sums,       \* sync: checksum and currentChecksum of the entry in hand, once
                \* both files were read
    calls,      \* the systemd calls of the current pass, in order, kept while
                \* nothing disturbs the pass
    failed,     \* the units whose processing in the first loop of the current
                \* pass hit an error (the source directory, if the listing
                \* failed), kept while nothing disturbs the pass
    late,       \* the units whose processing in the second loop hit an error:
                \* os.Stat failed on a file that is there, EnsureStopped or
                \* os.Remove failed; kept while nothing disturbs the pass
    disturbed,  \* the environment changed a file or a unit during the current pass
    owed,       \* recorded units whose Restart failed after the copy of their
                \* changed file, not restarted and their file not touched since
    before,     \* dest, state and active as the current pass found them, kept
                \* while nothing disturbs the pass
    settled,    \* the last pass returned true, no call of it failed, and nothing
                \* has changed since
    ticker,     \* runLoop's timer: the delay it is armed with, or "off"
    tickerC,    \* a tick waits in ticker.C (a channel with a buffer of one)
    events,     \* the notifications waiting in watcher.Events
    watcher,    \* "open", or "closed" (watcher.Events and watcher.Errors closed)
    werr,       \* an error waits in watcher.Errors
    trigger,    \* the case of runLoop's select that called fn: "timer", "event";
                \* "none" while fn is not running
    loopErr     \* what runLoop returned: "nil" or "watcher error", once pc = "stopped"

syncVars == <<src, dest, state, active, files, pending, ok, sums, calls, failed,
              late, disturbed, owed, before, settled>>

loopVars == <<ticker, tickerC, events, watcher, werr, trigger, loopErr>>

vars == <<src, dest, state, active, pc, files, pending, ok, sums, calls, failed,
          late, disturbed, owed, before, settled, ticker, tickerC, events, watcher, werr, trigger,
          loopErr>>

\* ------------------------------------------------- systemctl (main.go:222-272)

\* What can go wrong while the two files of a listed entry are read.  Each
\* error ends the entry's processing (continue), so one fault covers every case.
\*   read      getChecksum of the source file fails
\*   destread  getChecksum of the destination file fails, not with ENOENT
ScanFaults == {"none", "read", "destread"}

\* What can go wrong from the copy on.  systemctl is-active can fail (probe),
\* which does not end the entry's processing; after it, one fault per entry:
\*   open      copyFile fails in os.Open or os.Create
\*   copy      copyFile fails in io.Copy, after os.Create truncated the file
\*   reload    systemctl daemon-reload fails
\*   spawn     systemctl restart is not run: the deadline of the call's
\*             context has passed (main.go:227, 238), or fork/exec fails
\*   exec      systemctl restart runs and fails
CopyFaults ==
    [probe : BOOLEAN,
     after : {"none", "open", "copy", "reload", "spawn", "exec"}]

\* What can go wrong for one key of the state map in the second loop: os.Stat
\* can fail on a file that is there, and systemctl is-active can fail (probe),
\* neither of which ends the iteration, and after them systemctl stop (exec)
\* or os.Remove (remove).
CleanupFaults ==
    [stat : BOOLEAN, probe : BOOLEAN, after : {"none", "exec", "remove"}]

\* main.go:259-261: systemctl is-active --quiet ran and exited with 0.  When
\* the command itself fails (the context's timeout, fork/exec, the bus), Run
\* returns an error and the unit is taken for stopped.
isRunning(unit, probe) == unit \in active /\ ~probe

\* main.go:226-235.  A failed daemon-reload leaves the unit alone, and so does
\* a command that is not run; a restart that runs and fails leaves the unit
\* stopped.
Restart(unit, fault) ==
    IF fault \in {"reload", "spawn"}
    THEN [changed |-> FALSE, err |-> TRUE, active |-> active]
    ELSE IF fault = "exec"
         THEN [changed |-> FALSE, err |-> TRUE, active |-> active \ {unit}]
    ELSE [changed |-> TRUE, err |-> FALSE, active |-> active \cup {unit}]

\* main.go:237-246.  systemctl restart follows unless is-active said the unit
\* runs, under the same context: when it is not run (is-active used up the
\* deadline, say) the error is returned and the unit is as it was, running
\* or not; when it runs and fails the unit is left stopped, as in Restart.
EnsureRunning(unit, fault) ==
    IF isRunning(unit, fault.probe)
    THEN [changed |-> FALSE, err |-> FALSE, active |-> active]
    ELSE IF fault.after = "spawn"
         THEN [changed |-> TRUE, err |-> TRUE, active |-> active]
    ELSE IF fault.after = "exec"
         THEN [changed |-> TRUE, err |-> TRUE, active |-> active \ {unit}]
    ELSE [changed |-> TRUE, err |-> FALSE, active |-> active \cup {unit}]

\* main.go:248-257.  systemctl stop is run only if is-active said the unit
\* runs: "already stopped" otherwise, whether or not it is.
EnsureStopped(unit, fault) ==
    IF ~isRunning(unit, fault.probe)
    THEN [changed |-> FALSE, err |-> FALSE, active |-> active]
    ELSE IF fault.after = "exec"
         THEN [changed |-> TRUE, err |-> TRUE, active |-> active]
    ELSE [changed |-> TRUE, err |-> FALSE, active |-> active \ {unit}]

Call(cmd, unit, r) ==
    [cmd |-> cmd, unit |-> unit, changed |-> r.changed /\ ~r.err, err |-> r.err]

\* ------------------------------------------------------ files (main.go:185-214)

\* getChecksum: os.Open fails with ENOENT on a missing file.
getChecksum(dir, name, fault) ==
    IF name \notin DOMAIN dir THEN [sum |-> "", err |-> "ENOENT"]
    ELSE IF fault THEN [sum |-> "", err |-> "EIO"]
    ELSE [sum |-> Sha256Hex(dir[name]), err |-> "nil"]

\* copyFile(path.Join(src, unit), path.Join(dest, unit))
copyFile(unit, fault) ==
    IF unit \notin DOMAIN src THEN [dest |-> dest, err |-> "ENOENT"]
    ELSE IF fault = "open" THEN [dest |-> dest, err |-> "EACCES"]
    ELSE IF fault = "copy" THEN [dest |-> Put(dest, unit, Truncated), err |-> "EIO"]
    ELSE [dest |-> Put(dest, unit, src[unit]), err |-> "nil"]

\* os.Stat(path.Join(src, unit)): the error it returns
Stat(unit, fault) ==
    IF unit \notin DOMAIN src THEN "ENOENT"
    ELSE IF fault THEN "EACCES"
    ELSE "nil"

\* Mutant of Remove: reports success and removes nothing.
RemoveNothing(unit, fault) ==
    IF unit \notin DOMAIN dest THEN [dest |-> dest, err |-> "ENOENT"]
    ELSE IF fault = "remove" THEN [dest |-> dest, err |-> "EACCES"]
    ELSE [dest |-> dest, err |-> "nil"]

\* os.Remove(path.Join(dest, unit))
Remove(unit, fault) ==
    IF unit \notin DOMAIN dest THEN [dest |-> dest, err |-> "ENOENT"]
    ELSE IF fault = "remove" THEN [dest |-> dest, err |-> "EACCES"]
    ELSE [dest |-> Drop(dest, unit), err |-> "nil"]

\* --------------------------------------------------------- sync (main.go:84-183)

\* What processing one entry leaves behind.
Outcome(d, s, a, k, c, f, o) ==
    [dest |-> d, state |-> s, active |-> a, ok |-> k, calls |-> c, failed |-> f,
     owed |-> o]

\* The entry is skipped or fails before any systemd call.
Skipped(d, good, unit) ==
    Outcome(d, state, active, ok /\ good, <<>>,
            IF good THEN {} ELSE {unit}, owed)

\* Mutant of ScanEnsureRunning: the checksum is recorded only while the pass
\* has seen no error (if ok { state[unit] = checksum }).
ScanEnsureRunningIfOk(unit, checksum, d, fault) ==
    LET r == EnsureRunning(unit, fault) IN
    IF r.err
    THEN Outcome(d, state, r.active, FALSE, <<Call("EnsureRunning", unit, r)>>,
                 {unit}, owed)
    ELSE Outcome(d, IF ok THEN Put(state, unit, checksum) ELSE state, r.active, ok,
                 <<Call("EnsureRunning", unit, r)>>, {},
                 IF r.changed THEN owed \ {unit} ELSE owed)

\* main.go:128-141, the EnsureRunning branch
ScanEnsureRunning(unit, checksum, d, fault) ==
    LET r == EnsureRunning(unit, fault) IN
    IF r.err
    THEN Outcome(d, state, r.active, FALSE, <<Call("EnsureRunning", unit, r)>>,
                 {unit}, owed)
    ELSE Outcome(d, Put(state, unit, checksum), r.active, ok,
                 <<Call("EnsureRunning", unit, r)>>, {},
                 IF r.changed THEN owed \ {unit} ELSE owed)

\* Mutant of ScanRestart: the comparison with state[unit] is inverted.
ScanRestartInverted(unit, checksum, d, fault) ==
    IF checksum = Lookup(state, unit)
    THEN LET r == Restart(unit, fault.after) IN
         IF r.err
         THEN Outcome(d, state, r.active, FALSE, <<Call("Restart", unit, r)>>,
                      {unit}, owed \cup ({unit} \cap DOMAIN state))
         ELSE Outcome(d, Put(state, unit, checksum), r.active, ok,
                      <<Call("Restart", unit, r)>>, {}, owed \ {unit})
    ELSE Outcome(d, state, active, ok, <<>>, {}, owed)

\* main.go:143-153, the Restart branch
ScanRestart(unit, checksum, d, fault) ==
    IF checksum # Lookup(state, unit)
    THEN LET r == Restart(unit, fault.after) IN
         IF r.err
         THEN Outcome(d, state, r.active, FALSE, <<Call("Restart", unit, r)>>,
                      {unit}, owed \cup ({unit} \cap DOMAIN state))
         ELSE Outcome(d, Put(state, unit, checksum), r.active, ok,
                      <<Call("Restart", unit, r)>>, {}, owed \ {unit})
    ELSE Outcome(d, state, active, ok, <<>>, {}, owed)

\* No entry in hand.
NoSums == [checksum |-> "", currentChecksum |-> ""]

\* main.go:92-116, the first loop's body up to the two checksums.  `continue`
\* says whether the loop goes to the next entry (a skipped name, a read error).
ScanEntry(name, fault) ==
    IF SkipName(name)
    THEN [continue |-> TRUE, good |-> TRUE, sums |-> NoSums]
    ELSE
    LET unit == name
        cs == getChecksum(src, unit, fault = "read")
    IN
    IF cs.err # "nil"
    THEN [continue |-> TRUE, good |-> FALSE, sums |-> NoSums]
    ELSE
    LET cur == getChecksum(dest, unit, fault = "destread") IN
    IF cur.err # "nil" /\ cur.err # "ENOENT"
    THEN [continue |-> TRUE, good |-> FALSE, sums |-> NoSums]
    ELSE [continue |-> FALSE, good |-> TRUE,
          sums |-> [checksum |-> cs.sum, currentChecksum |-> cur.sum]]

\* main.go:118-153, the rest of the first loop's body: the copy and the call
CopyEntry(unit, fault) ==
    LET cp == IF sums.checksum # sums.currentChecksum
              THEN copyFile(unit, fault.after)
              ELSE [dest |-> dest, err |-> "nil"]
    IN
    IF cp.err # "nil" THEN Skipped(cp.dest, FALSE, unit)
    ELSE IF sums.checksum = sums.currentChecksum \/ sums.currentChecksum = ""
         THEN ScanEnsureRunning(unit, sums.checksum, cp.dest, fault)
    ELSE ScanRestart(unit, sums.checksum, cp.dest, fault)

\* os.Stat failed on a file that is there: the unit is cleaned up, and counts
\* among those that hit an error in the second loop.
StatFailed(unit, fault) == IF Stat(unit, fault.stat) = "EACCES" THEN {unit} ELSE {}

\* Mutant of CleanupEntry: the destination file is removed before the unit is
\* stopped, and stays removed when EnsureStopped fails.
CleanupRemovesFirst(unit, fault) ==
    IF Stat(unit, fault.stat) = "nil" THEN Skipped(dest, TRUE, unit)
    ELSE
    LET rm == Remove(unit, fault.after)
        r == EnsureStopped(unit, fault)
    IN
    IF rm.err # "nil"
    THEN Outcome(dest, state, active, FALSE, <<>>, {unit}, owed)
    ELSE IF r.err
    THEN Outcome(rm.dest, state, r.active, FALSE,
                 <<Call("EnsureStopped", unit, r)>>, {unit}, owed)
    ELSE Outcome(rm.dest, Drop(state, unit), r.active, ok,
                 <<Call("EnsureStopped", unit, r)>>, StatFailed(unit, fault),
                 owed \ {unit})

\* main.go:156-180, the body of the second loop for one key of state.  The
\* loop goes on to the next key only when os.Stat returns no error.
CleanupEntry(unit, fault) ==
    IF Stat(unit, fault.stat) = "nil" THEN Skipped(dest, TRUE, unit)
    ELSE
    LET r == EnsureStopped(unit, fault) IN
    IF r.err
    THEN Outcome(dest, state, r.active, FALSE, <<Call("EnsureStopped", unit, r)>>,
                 {unit}, owed)
    ELSE
    LET rm == Remove(unit, fault.after) IN
    IF rm.err # "nil"
    THEN Outcome(dest, state, r.active, FALSE, <<Call("EnsureStopped", unit, r)>>,
                 {unit}, owed)
    ELSE Outcome(rm.dest, Drop(state, unit), r.active, ok,
                 <<Call("EnsureStopped", unit, r)>>, StatFailed(unit, fault),
                 owed \ {unit})

\* Where sync is once the first loop has `left` entries to go: in the first
\* loop, in the second (for unit := range state), or at return ok.
AfterScan(left, st) ==
    IF left # <<>> THEN [pc |-> "scan", pending |-> {}]
    ELSE IF DOMAIN st # {} THEN [pc |-> "cleanup", pending |-> DOMAIN st]
    ELSE [pc |-> "return", pending |-> {}]

\* The source directory itself, in `failed` when its listing failed.
SrcDir == <<".">>

NoPass == [dest |-> <<>>, state |-> <<>>, active |-> {}]

\* Mutant of SyncList: a failed listing is taken as an empty one, and the pass
\* goes on with ok = false.
SyncListGoesOn(listErr) ==
    /\ calls' = <<>>
    /\ failed' = IF listErr THEN {SrcDir} ELSE {}
    /\ late' = {}
    /\ disturbed' = FALSE
    /\ before' = [dest |-> dest, state |-> state, active |-> active]
    /\ UNCHANGED <<src, dest, state, active, sums, owed, settled>>
    /\ LET listing == IF listErr THEN <<>> ELSE ReadDir(DOMAIN src)
           next == AfterScan(listing, state)
       IN  /\ ok' = ~listErr
           /\ files' = listing
           /\ pending' = next.pending
           /\ pc' = next.pc

\* main.go:85-91: list the source directory
SyncList(listErr) ==
    /\ calls' = <<>>
    /\ failed' = IF listErr THEN {SrcDir} ELSE {}
    /\ late' = {}
    /\ disturbed' = FALSE
    /\ before' = [dest |-> dest, state |-> state, active |-> active]
    /\ UNCHANGED <<src, dest, state, active, sums, owed, settled>>
    /\ IF listErr
       THEN /\ ok' = FALSE
            /\ files' = <<>>
            /\ pending' = {}
            /\ pc' = "return"
       ELSE LET listing == ReadDir(DOMAIN src)
                next == AfterScan(listing, state)
            IN  /\ ok' = TRUE
                /\ files' = listing
                /\ pending' = next.pending
                /\ pc' = next.pc

Apply(out) ==
    /\ dest' = out.dest
    /\ state' = out.state
    /\ active' = out.active
    /\ ok' = out.ok
    /\ calls' = IF disturbed THEN <<>> ELSE calls \o out.calls
    /\ owed' = out.owed

\* main.go:92-116: an iteration of the first loop begins: the name is tested
\* and the two files are read
SyncScan ==
    /\ pc = "scan"
    /\ files # <<>>
    /\ \E fault \in ScanFaults :
         LET read == ScanEntry(Head(files), fault) IN
         IF read.continue
         THEN LET next == AfterScan(Tail(files), state) IN
              /\ Apply(Skipped(dest, read.good, Head(files)))
              /\ failed' = IF disturbed \/ read.good THEN failed
                            ELSE failed \cup {Head(files)}
              /\ files' = Tail(files)
              /\ pending' = next.pending
              /\ pc' = next.pc
              /\ sums' = NoSums
         ELSE /\ pc' = "copy"
              /\ sums' = read.sums
              /\ UNCHANGED <<dest, state, active, ok, calls, failed, owed, files,
                             pending>>
    /\ UNCHANGED <<src, late, disturbed, before, settled>>
    /\ UNCHANGED loopVars

\* main.go:118-153: the iteration ends: the copy, the systemd call, the state
SyncCopy ==
    /\ pc = "copy"
    /\ \E fault \in CopyFaults :
         LET out == CopyEntry(Head(files), fault)
             next == AfterScan(Tail(files), out.state)
         IN  /\ Apply(out)
             /\ failed' = IF disturbed THEN failed ELSE failed \cup out.failed
             /\ files' = Tail(files)
             /\ pending' = next.pending
             /\ pc' = next.pc
    /\ sums' = NoSums
    /\ UNCHANGED <<src, late, disturbed, before, settled>>
    /\ UNCHANGED loopVars

\* main.go:156-180: one iteration of the second loop; Go ranges over a map in
\* any order
SyncCleanup ==
    /\ pc = "cleanup"
    /\ pending # {}
    /\ \E unit \in pending, fault \in CleanupFaults :
         LET out == CleanupEntry(unit, fault) IN
         /\ Apply(out)
         /\ late' = IF disturbed THEN late ELSE late \cup out.failed
         /\ pending' = pending \ {unit}
         /\ pc' = IF pending = {unit} THEN "return" ELSE "cleanup"
    /\ UNCHANGED <<src, files, sums, failed, disturbed, before, settled>>
    /\ UNCHANGED loopVars

\* ------------------------------------------------------------- environment

\* The user and the units act at any time, also while a pass runs (every
\* file-system and systemctl call of sync takes time).  What they do during a
\* pass disturbs it: the record of the pass (calls, failed, before) is dropped.

\* A pass is running.
InPass == pc \in {"scan", "copy", "cleanup", "return"}

\* The user writes a unit file (README: cp myprocess.service /units).
SrcWrite(name, content) ==
    /\ content \in Written(name)
    /\ Lookup(src, name) # content
    /\ Cardinality(DOMAIN src \cup {name}) <= MaxFiles
    /\ src' = Put(src, name, content)
    /\ disturbed' = (disturbed \/ InPass)
    /\ owed' = owed \ {name}
    /\ settled' = FALSE
    /\ before' = NoPass
    /\ calls' = <<>>
    /\ failed' = {}
    /\ late' = {}
    /\ UNCHANGED <<dest, state, active, pc, files, pending, ok, sums>>
    /\ UNCHANGED loopVars

\* The user deletes a unit file (README: rm /units/myprocess.service).
SrcRemove(name) ==
    /\ name \in DOMAIN src
    /\ src' = Drop(src, name)
    /\ disturbed' = (disturbed \/ InPass)
    /\ owed' = owed \ {name}
    /\ settled' = FALSE
    /\ before' = NoPass
    /\ calls' = <<>>
    /\ failed' = {}
    /\ late' = {}
    /\ UNCHANGED <<dest, state, active, pc, files, pending, ok, sums>>
    /\ UNCHANGED loopVars

\* A running unit exits on its own.
UnitExits(unit) ==
    /\ unit \in active
    /\ active' = active \ {unit}
    /\ disturbed' = (disturbed \/ InPass)
    /\ settled' = FALSE
    /\ before' = NoPass
    /\ calls' = <<>>
    /\ failed' = {}
    /\ late' = {}
    /\ UNCHANGED <<src, dest, state, pc, files, pending, ok, sums, owed>>
    /\ UNCHANGED loopVars

\* sync has returned: its locals and the record of the pass are gone.
Forget ==
    /\ ok' = TRUE
    /\ calls' = <<>>
    /\ failed' = {}
    /\ late' = {}
    /\ disturbed' = FALSE
    /\ before' = NoPass
    /\ settled' = (ok /\ ~disturbed /\ late = {})

\* ------------------------------------------------ sync called directly (TestSync)

\* sync(src, dest, state, sysd) is called
Invoke ==
    /\ pc = "wait"
    /\ \E listErr \in BOOLEAN : SyncList(listErr)
    /\ UNCHANGED loopVars

\* sync returns ok to its caller
Return ==
    /\ pc = "return"
    /\ pc' = "wait"
    /\ Forget
    /\ UNCHANGED <<src, dest, state, active, files, pending, sums, owed>>
    /\ UNCHANGED loopVars

Units == {n \in Names : ~SkipName(n)}

\* main.go:46: the state map starts empty.  The directories hold what the user
\* and an earlier run of the program left there.
InitSync(names) ==
    /\ src \in Dirs(names, MaxFiles)
    /\ dest \in Dirs(names \cap Units, MaxFiles)
    /\ state = <<>>
    /\ active \in SUBSET (names \cap Units)
    /\ pc = "wait"
    /\ files = <<>>
    /\ pending = {}
    /\ ok = TRUE
    /\ sums = NoSums
    /\ calls = <<>>
    /\ failed = {}
    /\ late = {}
    /\ disturbed = FALSE
    /\ owed = {}
    /\ before = NoPass
    /\ settled = FALSE

\* main.go:60: time.NewTimer(1); main.go:31-44: a watcher on the source directory
InitLoop ==
    /\ ticker = First
    /\ tickerC = FALSE
    /\ events = <<>>
    /\ watcher = "open"
    /\ werr = FALSE
    /\ trigger = "none"
    /\ loopErr = "nil"

\* sync and its environment, the user writing and deleting files of these names
SyncNext(names) ==
    \/ Invoke
    \/ SyncScan
    \/ SyncCopy
    \/ SyncCleanup
    \/ Return
    \/ \E name \in names, content \in Contents : SrcWrite(name, content)
    \/ \E name \in names : SrcRemove(name)
    \/ \E unit \in names \cap Units : UnitExits(unit)

\* The source directory holds unit files.
Init == InitSync(Units) /\ InitLoop

Next == SyncNext(Units)

Spec == Init /\ [][Next]_vars

\* The source directory holds one unit file and the files an editor leaves
\* next to it while the user edits.
EditorNames == {UnitA, SwapA, BackupB}

EditorInit == InitSync(EditorNames) /\ InitLoop

EditorNext == SyncNext(EditorNames)

EditorSpec == EditorInit /\ [][EditorNext]_vars

\* ------------------------------------------------------ runLoop (main.go:59-82)

\* main.go:72: the notifications that make runLoop call fn
Relevant == {"Write", "Create", "Remove", "Rename"}

\* The notifications delivered here: the two of the README's usage (a file is
\* written, a file is removed) and one that runLoop ignores.
Ops == {"Write", "Remove", "Chmod"}

\* Mutant of NextDelay: the two delays are swapped.
NextDelaySwapped(converged) == IF converged THEN Retry ELSE Resync

\* main.go:48-53: the closure main passes to runLoop, once sync has returned
NextDelay(converged) == IF converged THEN Resync ELSE Retry

\* Mutant of Reset: the timer is stopped and not armed again.
ResetStops(d) ==
    /\ ticker' = "off"
    /\ UNCHANGED tickerC

\* ticker.Reset(d): the timer is armed again; a tick already in ticker.C stays
Reset(d) ==
    /\ ticker' = d
    /\ UNCHANGED tickerC

\* The timer's delay elapses: it sends a tick on ticker.C unless one waits there.
TimerExpires ==
    /\ pc # "stopped"
    /\ ticker # "off"
    /\ ticker' = "off"
    /\ tickerC' = TRUE
    /\ UNCHANGED <<pc, events, watcher, werr, trigger, loopErr>>
    /\ UNCHANGED syncVars

\* fsnotify delivers a notification for the watched directory.
Notify(op) ==
    /\ watcher = "open"
    /\ Len(events) < MaxQueue
    /\ events' = Append(events, op)
    /\ UNCHANGED <<pc, ticker, tickerC, watcher, werr, trigger, loopErr>>
    /\ UNCHANGED syncVars

\* fsnotify reports an error.
WatcherError ==
    /\ watcher = "open"
    /\ ~werr
    /\ werr' = TRUE
    /\ UNCHANGED <<pc, ticker, tickerC, events, watcher, trigger, loopErr>>
    /\ UNCHANGED syncVars

\* watcher.Close(): both channels are closed, what waited in them is dropped.
WatcherClose ==
    /\ watcher = "open"
    /\ watcher' = "closed"
    /\ events' = <<>>
    /\ werr' = FALSE
    /\ UNCHANGED <<pc, ticker, tickerC, trigger, loopErr>>
    /\ UNCHANGED syncVars

\* main.go:65-66: case <-ticker.C calls fn, whose first step is sync's listing
TimerCase ==
    /\ pc = "wait"
    /\ tickerC
    /\ tickerC' = FALSE
    /\ trigger' = "timer"
    /\ \E listErr \in BOOLEAN : SyncList(listErr)
    /\ UNCHANGED <<ticker, events, watcher, werr, loopErr>>

\* Mutant of EventCase: a relevant notification only re-arms the timer to fire
\* at once (ticker.Reset(1)); fn is left to the timer's case.
EventCaseDebounced ==
    /\ pc = "wait"
    /\ watcher = "open"
    /\ events # <<>>
    /\ events' = Tail(events)
    /\ ticker' = IF Head(events) \in Relevant THEN First ELSE ticker
    /\ UNCHANGED <<pc, tickerC, watcher, werr, trigger, loopErr>>
    /\ UNCHANGED syncVars

\* main.go:67-74: case event, ok := <-watcher.Events, the channel open
EventCase ==
    /\ pc = "wait"
    /\ watcher = "open"
    /\ events # <<>>
    /\ events' = Tail(events)
    /\ IF Head(events) \in Relevant
       THEN /\ trigger' = "event"
            /\ \E listErr \in BOOLEAN : SyncList(listErr)
       ELSE UNCHANGED <<pc, trigger>> /\ UNCHANGED syncVars
    /\ UNCHANGED <<ticker, tickerC, watcher, werr, loopErr>>

\* main.go:66 and 73: fn has returned, ticker.Reset(fn())
FnReturn ==
    /\ pc = "return"
    /\ pc' = "wait"
    /\ Reset(NextDelay(ok))
    /\ trigger' = "none"
    /\ Forget
    /\ UNCHANGED <<src, dest, state, active, files, pending, sums, owed>>
    /\ UNCHANGED <<events, watcher, werr, loopErr>>

\* runLoop returns.  main.go:61: defer ticker.Stop(); main.go:35: main's
\* defer watcher.Close() runs as main returns or panics (main.go:54-56).
LoopReturns(err) ==
    /\ pc' = "stopped"
    /\ loopErr' = err
    /\ ticker' = "off"
    /\ watcher' = "closed"
    /\ events' = <<>>
    /\ werr' = FALSE
    /\ UNCHANGED <<tickerC, trigger>>
    /\ UNCHANGED syncVars

\* main.go:68-70: watcher.Events is closed
EventsClosed ==
    /\ pc = "wait"
    /\ watcher = "closed"
    /\ LoopReturns("nil")

\* main.go:76-78: watcher.Errors is closed
ErrorsClosed ==
    /\ pc = "wait"
    /\ watcher = "closed"
    /\ LoopReturns("nil")

\* Mutant of ErrorCase: the watcher's error is dropped (return nil).
ErrorCaseDropped ==
    /\ pc = "wait"
    /\ watcher = "open"
    /\ werr
    /\ LoopReturns("nil")

\* main.go:75-79: case err, ok := <-watcher.Errors, the channel open
ErrorCase ==
    /\ pc = "wait"
    /\ watcher = "open"
    /\ werr
    /\ LoopReturns("watcher error")

LoopInit == InitSync(LoopNames) /\ InitLoop

LoopNext ==
    \/ TimerExpires
    \/ \E op \in Ops : Notify(op)
    \/ WatcherError
    \/ WatcherClose
    \/ TimerCase
    \/ EventCase
    \/ FnReturn
    \/ EventsClosed
    \/ ErrorsClosed
    \/ ErrorCase
    \/ SyncScan
    \/ SyncCopy
    \/ SyncCleanup
    \/ \E name \in LoopNames, content \in Contents : SrcWrite(name, content)
    \/ \E name \in LoopNames : SrcRemove(name)
    \/ \E unit \in LoopNames : UnitExits(unit)

LoopSpec == LoopInit /\ [][LoopNext]_vars

\* The notifications that arrive while the source directory is left alone: a
\* file rewritten with the content it has, which runLoop acts on, and a chmod,
\* which it ignores.
QuietOps == {"Write", "Chmod"}

\* runLoop as it is scheduled, over a source directory the user leaves alone
\* (what a pass does still varies with the errors it meets).  sync's loops and
\* its return go on (every systemctl call runs under a timeout, main.go:227);
\* an armed timer fires; and a select (main.go:64) picks at random among its
\* ready cases, so a case that is ready again and again is taken in the end.
QuietNext ==
    \/ TimerExpires
    \/ \E op \in QuietOps : Notify(op)
    \/ WatcherError
    \/ WatcherClose
    \/ TimerCase
    \/ EventCase
    \/ FnReturn
    \/ EventsClosed
    \/ ErrorsClosed
    \/ ErrorCase
    \/ SyncScan
    \/ SyncCopy
    \/ SyncCleanup

LoopFair ==
    /\ LoopInit
    /\ [][QuietNext]_vars
    /\ WF_vars(SyncScan)
    /\ WF_vars(SyncCopy)
    /\ WF_vars(SyncCleanup)
    /\ WF_vars(FnReturn)
    /\ WF_vars(TimerExpires)
    /\ SF_vars(TimerCase)
    /\ SF_vars(EventCase)
    /\ SF_vars(EventsClosed \/ ErrorsClosed)
    /\ SF_vars(ErrorCase)

\* ------------------------------------------------------------------ claims

\* The Desired Set: the files of the source directory that sync does not skip.
Desired == {n \in DOMAIN src : ~SkipName(n)}

\* The systemd calls of the current pass for one unit, in order.
CallsFor(unit) ==
    LET ForUnit(c) == c.unit = unit IN SelectSeq(calls, ForUnit)

Made(cmd, unit, changed) ==
    <<[cmd |-> cmd, unit |-> unit, changed |-> changed, err |-> FALSE]>>

\* sync is at `return ok` with this value, after a pass during which the user
\* touched no file and no unit exited.
Returning(value) == pc = "return" /\ ok = value /\ ~disturbed

\* systemctl is-active failed for the unit while it ran, in a pass that
\* nothing disturbs: EnsureRunning went on to restart a unit that ran when
\* the pass began, or EnsureStopped found a unit that runs "already stopped".
Misread(u) ==
    \E i \in 1..Len(calls) :
        /\ calls[i].unit = u
        /\ \/ /\ calls[i].cmd = "EnsureRunning"
              /\ u \in before.active
              /\ calls[i].changed \/ calls[i].err
           \/ /\ calls[i].cmd = "EnsureStopped"
              /\ ~calls[i].changed /\ ~calls[i].err
              /\ u \in active

\* sync is at `return ok` after a pass in which no call failed, of systemctl
\* (is-active included) or of the file system, and which nothing disturbed.
ReturningClean ==
    /\ pc = "return" /\ ~disturbed
    /\ failed = {} /\ late = {}
    /\ \A u \in Units : ~Misread(u)

\* C1: after a pass that returns true (and in which os.Stat did not fail),
\* every unit of the Desired Set has its current fingerprint in the state
\* map, a destination file with that fingerprint, and is active in systemd.
C1_ConvergedUnitsLive ==
    (Returning(TRUE) /\ late = {}) =>
        \A u \in Desired :
            /\ Lookup(state, u) = Sha256Hex(src[u])
            /\ u \in DOMAIN dest
            /\ Sha256Hex(dest[u]) = Sha256Hex(src[u])
            /\ u \in active

\* C2: a unit whose Restart failed after its changed file was copied, and whose
\* source file is left as it is, does not get the new fingerprint recorded, and
\* no pass returns true, until a restart of it has succeeded.
C2_RestartOwedIsRetried ==
    \A u \in owed :
        /\ Lookup(state, u) # Sha256Hex(src[u])
        /\ ~(pc = "return" /\ ok)

\* C3: after a pass that returns true, the keys of the state map are the
\* Desired Set, and every unit of it has a destination file with the
\* fingerprint of its source file.
C3_Convergence ==
    Returning(TRUE) =>
        /\ DOMAIN state = Desired
        /\ \A u \in Desired :
               u \in DOMAIN dest /\ Sha256Hex(dest[u]) = Sha256Hex(src[u])

\* The pass found the unit recorded with the fingerprint of its destination
\* file, and its source file with another content.
ChangedUnit(u) ==
    /\ u \in DOMAIN before.state
    /\ u \in DOMAIN before.dest
    /\ Sha256Hex(before.dest[u]) = before.state[u]
    /\ u \in DOMAIN src
    /\ Sha256Hex(src[u]) # before.state[u]

\* C4: a pass without errors that finds a recorded unit's source changed issues
\* one Restart for it and no other call, and leaves the new content in the
\* destination file and its fingerprint in the state map.
C4_ChangeDetection ==
    ReturningClean =>
        \A u \in Units :
            ChangedUnit(u) =>
                /\ CallsFor(u) = Made("Restart", u, TRUE)
                /\ u \in DOMAIN dest /\ dest[u] = src[u]
                /\ Lookup(state, u) = Sha256Hex(src[u])

\* C4 witness: a pass without errors returns that found a changed unit.
C4_Witness == ReturningClean /\ \E u \in Units : ChangedUnit(u)

\* The pass found the unit recorded, and no source file for it.
RemovedUnit(u) == u \in DOMAIN before.state /\ u \notin DOMAIN src

\* C5: a pass without errors that finds a recorded unit's source file gone
\* leaves no destination file and no state entry for it, has issued one
\* EnsureStopped for it (a stop if it was active), and returns true.
C5_Deletion ==
    ReturningClean =>
        \A u \in Units :
            RemovedUnit(u) =>
                /\ u \notin DOMAIN dest
                /\ u \notin DOMAIN state
                /\ CallsFor(u) = Made("EnsureStopped", u, u \in before.active)
                /\ ok

\* C5 witness: a pass without errors returns that found a removed unit active.
C5_Witness ==
    ReturningClean /\ \E u \in Units : RemovedUnit(u) /\ u \in before.active

\* C6: a pass run after a pass that returned true, with nothing changed in
\* between and no call failing, starts, stops and restarts nothing, leaves the
\* destination files and the state map as they were, and returns true.
C6_Idempotent ==
    (ReturningClean /\ settled) =>
        /\ \A i \in 1..Len(calls) : ~calls[i].changed
        /\ dest = before.dest
        /\ state = before.state
        /\ ok

\* What a pass does for one unit, from what the pass found (spec 4.2, steps 2
\* and 3): the call it makes.
ExpectedCall(u) ==
    LET want == Sha256Hex(src[u])
        had == IF u \in DOMAIN before.dest THEN Sha256Hex(before.dest[u]) ELSE ""
    IN  IF u \in Desired
        THEN IF had = want \/ had = ""
             THEN Made("EnsureRunning", u, u \notin before.active)
             ELSE IF Lookup(before.state, u) # want
                  THEN Made("Restart", u, TRUE)
                  ELSE <<>>
        ELSE IF u \in DOMAIN before.state
             THEN Made("EnsureStopped", u, u \in before.active)
             ELSE <<>>

\* The unit was processed by the current pass as a pass without any failure
\* processes it: the same copy, the same call, the same state update.
Reconciled(u) ==
    /\ CallsFor(u) = ExpectedCall(u)
    /\ IF u \in Desired
       THEN /\ u \in DOMAIN dest /\ dest[u] = src[u]
            /\ Lookup(state, u) = Sha256Hex(src[u])
       ELSE IF u \in DOMAIN before.state
            THEN u \notin DOMAIN dest /\ u \notin DOMAIN state
            ELSE /\ u \notin DOMAIN state
                 /\ (u \in DOMAIN dest) = (u \in DOMAIN before.dest)
                 /\ u \in DOMAIN dest => dest[u] = before.dest[u]

HadCallError(a) == \E i \in 1..Len(calls) : calls[i].unit = a /\ calls[i].err

\* C7: when a systemd call fails for one unit, the pass returns false and every
\* unit that hit no error itself is processed as in a pass without the failure.
C7_FailureIsolation ==
    (pc = "return" /\ ~disturbed) =>
        \A a \in Units :
            HadCallError(a) =>
                /\ ~ok
                /\ \A b \in Units \ (failed \cup late) :
                       ~Misread(b) => Reconciled(b)

\* C7 witness: EnsureRunning for the first listed unit returned an error with
\* the unit running as before (systemctl is-active failed and restart was not
\* run), and the pass went on to start the second and record it.
C7_Witness ==
    /\ pc = "return" /\ ~disturbed
    /\ HadCallError(UnitA)
    /\ CallsFor(UnitA)[1].cmd = "EnsureRunning"
    /\ UnitA \in before.active
    /\ UnitA \in active
    /\ UnitB \notin failed \cup late
    /\ ~Misread(UnitB)
    /\ CallsFor(UnitB) = Made("EnsureRunning", UnitB, TRUE)
    /\ UnitB \notin DOMAIN before.state
    /\ UnitB \in DOMAIN state

\* The kinds of notification the scheduler is to act on.
ClaimedKinds == {"Create", "Write", "Remove", "Rename"}

\* A step of runLoop that takes the first waiting notification.
TakesNotification ==
    /\ pc = "wait"
    /\ events # <<>>
    /\ events' = Tail(events)
    /\ watcher' = "open"

\* A step of runLoop that calls fn, and with it sync.
CallsFn == pc = "wait" /\ pc' \in {"scan", "cleanup", "return"}

\* C8: a relevant notification only re-arms the timer, so that a
\* burst of them leads to one pass: taking a relevant notification while
\* another one waits behind it starts no pass.
C8_BurstCoalesced ==
    [][(/\ TakesNotification
        /\ Head(events) \in ClaimedKinds
        /\ Len(events) >= 2
        /\ events[2] \in ClaimedKinds) => pc' = "wait"]_vars

\* C9: when runLoop takes the timer's tick it calls fn in that step, and when
\* that pass returns it arms the timer with the resync interval if sync
\* returned true, with the retry interval if it returned false.
C9_TimerCase ==
    [][/\ (pc = "wait" /\ tickerC /\ ~tickerC') =>
            /\ CallsFn
            /\ trigger' = "timer"
            /\ events' = events
       /\ (pc = "return" /\ trigger = "timer" /\ pc' = "wait") =>
            ticker' = (IF ok THEN Resync ELSE Retry)]_vars

\* C9 witness: a pass called for the timer's tick is about to return false.
C9_Witness == pc = "return" /\ trigger = "timer" /\ ~ok

\* C10: a relevant notification taken while the timer is still armed with the
\* resync or the retry interval starts a pass in that step; the timer has not
\* elapsed.
C10_NotificationPreempts ==
    [][(/\ TakesNotification
        /\ Head(events) \in ClaimedKinds
        /\ ticker \in {Resync, Retry}
        /\ ~tickerC) =>
            /\ CallsFn
            /\ trigger' = "event"
            /\ ticker' = ticker
            /\ ~tickerC']_vars

\* C10 witness: a pass called for a notification runs while the timer is armed
\* with the resync interval and has not fired.
C10_Witness ==
    /\ pc \in {"scan", "cleanup", "return"}
    /\ trigger = "event"
    /\ ticker = Resync
    /\ ~tickerC

\* The source of the notifications has closed the watcher's channels, and
\* runLoop has not returned yet.
ClosedBySource == watcher = "closed" /\ pc # "stopped"

\* C11: once the watcher's channels are closed by their source runLoop returns
\* nil; once an error waits in watcher.Errors runLoop returns it as "watcher
\* error" (unless the source closes the channels first); and once runLoop has
\* returned no pass runs and nothing of the reconciler's changes again.
C11_Terminates ==
    /\ ClosedBySource ~> (pc = "stopped" /\ loopErr = "nil")
    /\ werr ~> ((pc = "stopped" /\ loopErr = "watcher error") \/ ClosedBySource)
    /\ [][pc = "stopped" =>
              /\ pc' = "stopped"
              /\ loopErr' = loopErr
              /\ UNCHANGED <<dest, state, active, calls, ticker>>]_vars

\* C11 witness: runLoop has returned the watcher's error after a pass that
\* recorded a unit.
C11_Witness ==
    /\ pc = "stopped"
    /\ loopErr = "watcher error"
    /\ state # <<>>

\* C12: while runLoop has not returned, a timer is armed or has fired whenever
\* it waits, the return of a pass arms it (with the retry interval after a
\* failed pass), and runLoop leaves its wait for a pass (or returns) again and
\* again, whether or not a notification arrives.
C12_PeriodicRevalidation ==
    /\ [](pc = "wait" => (ticker # "off" \/ tickerC))
    /\ [][(pc = "return" /\ pc' = "wait") =>
              ticker' = (IF ok THEN Resync ELSE Retry)]_vars
    /\ []<>(pc # "wait")
    /\ (pc = "return" /\ ~ok) ~> (pc = "wait")

\* C12 witness: a pass started by the timer, with no notification waiting, has
\* failed and is about to return; the timer is not armed.
C12_Witness ==
    /\ pc = "return"
    /\ ~ok
    /\ trigger = "timer"
    /\ events = <<>>
    /\ ticker = "off"
    /\ ~tickerC

\* The first loop processes a listed unit whose source file is gone by now.
ScansDeleted ==
    /\ pc = "scan"
    /\ files # <<>>
    /\ files' = Tail(files)
    /\ ~SkipName(Head(files))
    /\ Head(files) \notin DOMAIN src

\* C13: a listed unit whose source file was deleted before its fingerprint is
\* read is skipped: the pass is not marked failed for it, and nothing is
\* copied and no systemd call is issued for it in the first loop.
C13_DeletedIsSkipped ==
    [][ScansDeleted =>
           /\ ok' = ok
           /\ calls' = calls
           /\ dest' = dest
           /\ state' = state]_vars

\* The units whose processing in the first loop of the current pass hit an
\* error: their source file is there, and they are in `failed`.
FailedInScan == failed \cap Desired

\* The file of the unit in a directory, "none" if there is none.
FileOf(dir, u) == IF u \in DOMAIN dir THEN dir[u] ELSE "none"

\* C14: a unit whose processing in the first loop hit an error has, when the
\* pass returns, the state entry the pass found (none if it found none); the
\* pass returns false; the only call made for it, if any, is the one that
\* failed; and if no call was made its destination file is as the pass found
\* it, or was left truncated by the failed copy.
C14_FailedUnitStateKept ==
    (pc = "return" /\ ~disturbed) =>
        \A u \in FailedInScan :
            /\ ~ok
            /\ (u \in DOMAIN state) = (u \in DOMAIN before.state)
            /\ Lookup(state, u) = Lookup(before.state, u)
            /\ CallsFor(u) # <<>> =>
                   /\ Len(CallsFor(u)) = 1
                   /\ CallsFor(u)[1].err
                   /\ CallsFor(u)[1].cmd \in {"EnsureRunning", "Restart"}
            /\ CallsFor(u) = <<>> =>
                   FileOf(dest, u) \in {FileOf(before.dest, u), Truncated}

\* The call the first loop is to pick for a desired unit, from the destination
\* file and the state entry the pass found.
PickedCmd(u) ==
    LET want == Sha256Hex(src[u])
        had == IF u \in DOMAIN before.dest THEN Sha256Hex(before.dest[u]) ELSE ""
    IN  IF u \notin DOMAIN before.dest \/ had = want THEN "EnsureRunning"
        ELSE IF Lookup(before.state, u) # want THEN "Restart"
        ELSE "none"

\* C15: in one pass at most one call is issued for a desired unit, and it is
\* the one picked from what the pass found: EnsureRunning if the destination
\* file was missing or had the source's fingerprint, Restart if it had another
\* one and the state entry differs from the source's, none otherwise; the call
\* is issued unless the listing, or reading or copying the file, failed; and
\* after an EnsureRunning without error the source's fingerprint is in the
\* state map, whether or not the unit had to be started.
C15_ActionSelection ==
    (pc = "return" /\ ~disturbed) =>
        \A u \in Desired :
            /\ Len(CallsFor(u)) <= 1
            /\ CallsFor(u) # <<>> => CallsFor(u)[1].cmd = PickedCmd(u)
            /\ (CallsFor(u) = <<>> /\ u \notin failed /\ SrcDir \notin failed) =>
                   PickedCmd(u) = "none"
            /\ (CallsFor(u) # <<>> /\ PickedCmd(u) = "EnsureRunning"
                    /\ ~CallsFor(u)[1].err) =>
                   Lookup(state, u) = Sha256Hex(src[u])

\* The second loop visits the key u of the state map and finds no source file.
CleansUp(u) ==
    /\ pc = "cleanup"
    /\ u \in pending
    /\ pending' = pending \ {u}
    /\ u \notin DOMAIN src

\* C16: for a recorded unit without a source file the second loop calls
\* EnsureStopped (seen in the record of the calls while nothing disturbs the
\* pass; a stop it reports leaves the unit stopped); it removes the
\* destination file only if that call returned no error, and deletes the
\* state entry only if the file was removed; if
\* EnsureStopped or the removal fails the state entry is kept (and after a
\* failed EnsureStopped the file too) and the pass returns false; and the
\* second loop of every pass visits every key the state map has by then, so
\* the kept entry is visited again by the next pass.
C16_CleanupOrder ==
    /\ [][\A u \in Units :
              CleansUp(u) =>
                  /\ ~disturbed =>
                         /\ Len(calls') = Len(calls) + 1
                         /\ calls'[Len(calls')].cmd = "EnsureStopped"
                         /\ calls'[Len(calls')].unit = u
                         /\ calls'[Len(calls')].err =>
                                (dest' = dest /\ state' = state)
                         /\ calls'[Len(calls')].changed => u \notin active'
                  /\ dest' # dest => dest' = Drop(dest, u)
                  /\ state' # state => (state' = Drop(state, u) /\ u \notin DOMAIN dest')
                  /\ u \in DOMAIN state' => ~ok']_vars
    /\ [][(pc # "cleanup" /\ pc' = "cleanup") => pending' = DOMAIN state']_vars
    /\ []((pc = "return" /\ ~disturbed /\ SrcDir \notin failed) =>
              (\A u \in DOMAIN state : u \notin DOMAIN src => ~ok))
    /\ []((pc = "return" /\ SrcDir \notin failed) => pending = {})

\* C16 witness: a pass is about to return false that stopped a removed unit
\* and could not remove its destination file: file and state entry are kept.
C16_Witness ==
    /\ pc = "return" /\ ~ok
    /\ UnitA \notin DOMAIN src
    /\ CallsFor(UnitA) = Made("EnsureStopped", UnitA, TRUE)
    /\ UnitA \in DOMAIN dest
    /\ UnitA \in DOMAIN state

\* The current pass is one whose listing of the source directory failed.
ListingFailed == SrcDir \in failed

\* C17: when the listing of the source directory fails, sync goes straight to
\* return false: it enters neither loop, makes no systemd call, and leaves the
\* destination directory, the state map and the units as they were.
C17_ListingFailureAborts ==
    /\ [](ListingFailed =>
              /\ pc = "return"
              /\ ~ok
              /\ calls = <<>>
              /\ files = <<>>
              /\ pending = {})
    /\ [][ListingFailed' =>
              /\ dest' = dest
              /\ state' = state
              /\ active' = active]_vars

\* C17 witness: the listing failed in a pass that found a unit recorded and
\* running; it is still recorded and running.
C17_Witness ==
    /\ ListingFailed
    /\ UnitA \in DOMAIN state
    /\ UnitA \in active
    /\ UnitA \in DOMAIN dest

\* The names of editor files: those ending in ".swp" or "~".
Transient ==
    {n \in Names :
        \/ Len(n) >= 4 /\ SubSeq(n, Len(n) - 3, Len(n)) = <<".", "s", "w", "p">>
        \/ n[Len(n)] = "~"}

\* The first loop processes a listed editor file.
ScansTransient ==
    /\ pc = "scan"
    /\ files # <<>>
    /\ files' = Tail(files)
    /\ Head(files) \in Transient

\* C18: no editor file is ever a key of the state map, has a destination
\* file, or is the unit of a systemd call, waits for the second loop, or
\* counts as failed; and the iteration of the first loop that meets one
\* changes nothing but the loop's position.
C18_TransientFilesSkipped ==
    /\ [](\A n \in Transient :
              /\ n \notin DOMAIN state
              /\ n \notin DOMAIN dest
              /\ n \notin pending
              /\ n \notin failed
              /\ CallsFor(n) = <<>>)
    /\ [][ScansTransient =>
              UNCHANGED <<src, dest, state, active, ok, calls, failed>>]_vars

\* C18 witness: a pass returns true that listed a swap file and a backup
\* file and nothing else.
C18_Witness ==
    /\ pc = "return" /\ ok /\ ~disturbed
    /\ DOMAIN src = {SwapA, BackupB}
    /\ ~ListingFailed

\* C19: when a pass returns true, every file of the destination directory is
\* the file of a unit that has a source file.
C19_DestMirrorsSource ==
    Returning(TRUE) => \A u \in DOMAIN dest : u \in DOMAIN src

\* This step issues EnsureStopped for the unit.
StopCalled(u) ==
    /\ Len(calls') = Len(calls) + 1
    /\ calls'[Len(calls')].cmd = "EnsureStopped"
    /\ calls'[Len(calls')].unit = u

\* This step removes the unit's destination file.
DestRemoved(u) == u \in DOMAIN dest /\ u \notin DOMAIN dest'

\* The current pass has called EnsureRunning or Restart for the unit and
\* EnsureStopped as well.
StartedAndStopped(u) ==
    /\ \E i \in 1..Len(calls) :
           calls[i].unit = u /\ calls[i].cmd \in {"EnsureRunning", "Restart"}
    /\ \E i \in 1..Len(calls) :
           calls[i].unit = u /\ calls[i].cmd = "EnsureStopped"

\* C20: EnsureStopped is called for a unit, and a destination file is removed,
\* only by the second loop, for a key of the state map that has no source file
\* at that moment; and in a pass during which no file is touched no unit gets
\* a start or restart call and a stop call.
C20_NeverStopsDeclared ==
    /\ [][\A u \in Names :
              (StopCalled(u) \/ DestRemoved(u)) =>
                  /\ pc = "cleanup"
                  /\ u \in pending
                  /\ u \in DOMAIN state
                  /\ u \notin DOMAIN src]_vars
    /\ [](\A u \in Names : ~StartedAndStopped(u))

====
